---- MODULE Spec2Model ----
(***************************************************************************)
(* The Catheter Watchdog workflow of watchdog_mock.py (single cycle) and   *)
(* hapi/watchdog.py (reschedule loops back to check_schedule), together    *)
(* with the __main__ loop that invokes the compiled graph once per         *)
(* discovered patient.                                                     *)
(*                                                                         *)
(* Time is counted in ticks, TicksPerHour of them to the hour; an elapsed  *)
(* time is the integer number of ticks, so h hours is h * TicksPerHour and *)
(* the comparisons of the code are exact.  None is the empty tuple and a   *)
(* present value x is <<x>>.                                               *)
(***************************************************************************)
EXTENDS Integers, Sequences, FiniteSets, TLC

VARIABLES
    variant,        \* "mock" (watchdog_mock.py) or "hapi" (hapi/watchdog.py)
    pc,             \* "main", "loop", a node name, "END", "exit" or "raised"
    patients,       \* the list the __main__ loop iterates over
    idx,            \* position of the loop in patients
    patient_id,     \* State.patient_id
    catheter_data,  \* State.catheter_data
    hours_since,    \* State.hours_since
    status,         \* State.status
    exc,            \* the uncaught exception that ended the process, or "none"
    cyc,            \* history of the current cycle: fetch outcome, nodes run, decide's result
    recheck,        \* the current cycle was entered through reschedule -> check_schedule
    alert,          \* the last alert printed by notify_staff
    alerted,        \* an alert was printed during the current invocation
    started,        \* positions of patients whose workflow entered check_schedule
    summaries,      \* what print_summary printed (mock only)
    bundle,         \* the discovery response while fetch_patients_with_catheters holds it
    calc,           \* hours_since_insertion applied to two timestamps at one clock reading
    smart           \* patients_smart.py: get_urinary_catheter_patients

vars == <<variant, pc, patients, idx, patient_id, catheter_data, hours_since,
          status, exc, cyc, recheck, alert, alerted, started, summaries,
          bundle, calc, smart>>

---------------------------------------------------------------------------
\* Bounds of the model
TicksPerHour == 4
MaxLag == 2
MaxPatients == 2
MaxHours == 101
MaxCalc == 6
MaxPages == 2
MaxPageEntries == 2

\* Program constant
CHANGE_INTERVAL_HOURS == 72

None == <<>>
Some(x) == <<x>>
Hours(n) == n * TicksPerHour

Variants == {"mock", "hapi"}
PatientIds == {"patient-001", "patient-002", "patient-003", "patient-004"}

\* Readings of the wall clock (datetime.now) during one check_schedule.
Clock == 0 .. MaxLag

\* Elapsed times, in ticks, a State may carry when a node is called directly.
HoursRange == (0 - Hours(1)) .. Hours(MaxHours)

\* Instants the FHIR server may report as meta.lastUpdated, relative to
\* the first clock reading: in the future, and 12, 70, 72 (minus a tick) and
\* 100 hours in the past.
InsertedSamples ==
    { Hours(1), 0 - Hours(12), 0 - Hours(CHANGE_INTERVAL_HOURS - 2),
      1 - Hours(CHANGE_INTERVAL_HOURS), 0 - Hours(CHANGE_INTERVAL_HOURS),
      0 - Hours(100) }

Timestamp(kind, t) == [kind |-> kind, t |-> t]
Record(p, inserted, device) == [patient_id |-> p, inserted |-> inserted, device |-> device]

\* Duplicate-free lists of at most MaxPatients identifiers: list(set(...)).
RECURSIVE ListsUpTo(_)
ListsUpTo(n) ==
    IF n = 0 THEN {<<>>}
    ELSE LET shorter == ListsUpTo(n - 1)
         IN  shorter \cup
             { Append(s, p) : s \in {x \in shorter : Len(x) = n - 1},
                              p \in PatientIds }
NoDuplicates(s) == \A i, j \in 1 .. Len(s) : i # j => s[i] # s[j]
PatientLists == { s \in ListsUpTo(MaxPatients) : NoDuplicates(s) }

\* Resources of a discovery bundle.  A reference is the list of the parts of
\* its text between the "/": "Patient/p" is <<"Patient", p>>, a missing
\* reference (the default "") is <<>>.
Resource(resourceType, id, reference) ==
    [resourceType |-> resourceType, id |-> id, reference |-> reference]
BundleEntries ==
    { Resource("Patient", p, <<>>) : p \in PatientIds }
    \cup { Resource("Device", "dev", <<"Patient", p>>) : p \in PatientIds }
    \cup { Resource("Device", "dev", <<"Patient", "patient-001", "_history", "1">>),
           Resource("Device", "dev", <<"http:", "", "hapi.fhir.org", "baseR4", "Patient", "patient-002">>),
           Resource("Device", "dev", <<>>),
           Resource("Observation", "obs", <<>>) }
RECURSIVE SeqsUpTo(_, _)
SeqsUpTo(S, n) ==
    IF n = 0 THEN {<<>>}
    ELSE LET shorter == SeqsUpTo(S, n - 1)
         IN  shorter \cup
             { Append(s, x) : s \in {y \in shorter : Len(y) = n - 1}, x \in S }
\* The "entry" lists of the bundles the server may answer with.
Bundles == SeqsUpTo(BundleEntries, MaxPatients)
Range(s) == { s[i] : i \in 1 .. Len(s) }

---------------------------------------------------------------------------
\* Helper functions

\* patient_ref.startswith("Patient/")
StartsWithPatient(reference) == Len(reference) >= 2 /\ reference[1] = "Patient"

\* Mutant: discovery that looks at the direct Patient records only.
fetch_patients_with_catheters_patients_only(entries) ==
    { entries[i].id : i \in { j \in 1 .. Len(entries) : entries[j].resourceType = "Patient" } }

\* fetch_patients_with_catheters (hapi/watchdog.py, hapi/patients_hapi.py): the
\* loop over bundle.get("entry", []), started with patient_ids empty.
RECURSIVE scan_entries(_, _)
scan_entries(entries, patient_ids) ==
    IF entries = <<>> THEN patient_ids
    ELSE LET resource == Head(entries)
         IN  scan_entries(Tail(entries),
                IF resource.resourceType = "Patient"
                THEN patient_ids \cup {resource.id}
                ELSE IF resource.resourceType = "Device" /\ StartsWithPatient(resource.reference)
                     THEN patient_ids \cup {resource.reference[2]}
                     ELSE patient_ids)

\* The set the function has collected when it returns list(patient_ids).
fetch_patients_with_catheters(entries) == scan_entries(entries, {})

\* watchdog_mock.py fetch_patients_with_catheters
MockPatients == <<"patient-001", "patient-002", "patient-003">>

\* watchdog_mock.py patient_offsets
patient_offsets ==
    [p \in {"patient-001", "patient-002", "patient-003"} |->
        CASE p = "patient-001" -> 100
          [] p = "patient-002" -> 12
          [] p = "patient-003" -> 70]

\* watchdog_mock.py fetch_catheter_data: now is the clock reading of line 22.
\* strftime drops the sub-second part of the instant, which is below the
\* resolution of a tick and only makes the instant earlier.
fetch_catheter_data_mock(p, now) ==
    IF p \in DOMAIN patient_offsets
    THEN Some(Record(p, Timestamp("aware", now - Hours(patient_offsets[p])), "mock-device"))
    ELSE None

\* hapi/watchdog.py fetch_catheter_data: what one call can produce.  The
\* request or the JSON decoding raises; the bundle has no entry or the first
\* device has no meta.lastUpdated (None); or a record is returned whose
\* inserted text is an offset-aware timestamp, a timestamp without offset, or
\* not a timestamp at all.
FetchOutcomesHapi(p) ==
    { [exc |-> "RequestException", value |-> None],
      [exc |-> "none", value |-> None] }
    \cup { [exc |-> "none", value |-> Some(Record(p, Timestamp("aware", t), "Device"))] :
             t \in InsertedSamples }
    \cup { [exc |-> "none", value |-> Some(Record(p, Timestamp(k, 0), "Device"))] :
             k \in {"naive", "unparseable"} }

\* Mutant: the subtraction of hours_since_insertion reversed.
hours_since_insertion_reversed(iso_time, now) ==
    IF iso_time.kind = "unparseable" THEN [exc |-> "ValueError", value |-> 0]
    ELSE IF iso_time.kind = "naive" THEN [exc |-> "TypeError", value |-> 0]
    ELSE [exc |-> "none", value |-> iso_time.t - now]

\* hours_since_insertion (both files): fromisoformat raises ValueError on text
\* it cannot parse; subtracting a naive datetime from the aware now raises
\* TypeError; otherwise the elapsed time now - inserted.
hours_since_insertion(iso_time, now) ==
    IF iso_time.kind = "unparseable" THEN [exc |-> "ValueError", value |-> 0]
    ELSE IF iso_time.kind = "naive" THEN [exc |-> "TypeError", value |-> 0]
    ELSE [exc |-> "none", value |-> now - iso_time.t]

---------------------------------------------------------------------------
\* Nodes: each returns the exception it raises ("none" when it returns) and
\* the partial state update it returns.

NoUpdate == [x \in {} |-> None]

\* Mutant: check_schedule_node returning the elapsed time without the record.
check_schedule_node_drops_data(fetched, now) ==
    IF fetched = None
    THEN [exc |-> "none", update |-> [status |-> "no_data"]]
    ELSE LET hours == hours_since_insertion(fetched[1].inserted, now)
         IN  IF hours.exc # "none"
             THEN [exc |-> hours.exc, update |-> NoUpdate]
             ELSE [exc |-> "none", update |-> [hours_since |-> Some(hours.value)]]

\* check_schedule_node (both files), given what fetch_catheter_data returned
\* and the clock reading inside hours_since_insertion.
check_schedule_node(fetched, now) ==
    IF fetched = None
    THEN [exc |-> "none", update |-> [status |-> "no_data"]]
    ELSE LET hours == hours_since_insertion(fetched[1].inserted, now)
         IN  IF hours.exc # "none"
             THEN [exc |-> hours.exc, update |-> NoUpdate]
             ELSE [exc |-> "none",
                   update |-> [catheter_data |-> fetched,
                               hours_since |-> Some(hours.value)]]

\* Mutant: the mock classifier with a borderline window of one hour.
decide_action_node_mock_window1(hs) ==
    IF hs = None THEN [exc |-> "TypeError", update |-> NoUpdate]
    ELSE IF hs[1] > Hours(CHANGE_INTERVAL_HOURS)
         THEN [exc |-> "none", update |-> [status |-> "overdue"]]
    ELSE IF hs[1] > Hours(CHANGE_INTERVAL_HOURS - 1)
         THEN [exc |-> "none", update |-> [status |-> "borderline"]]
    ELSE [exc |-> "none", update |-> [status |-> "ok"]]

\* watchdog_mock.py decide_action_node: None > 72 raises TypeError.
decide_action_node_mock(hs) ==
    IF hs = None THEN [exc |-> "TypeError", update |-> NoUpdate]
    ELSE IF hs[1] > Hours(CHANGE_INTERVAL_HOURS)
         THEN [exc |-> "none", update |-> [status |-> "overdue"]]
    ELSE IF hs[1] > Hours(CHANGE_INTERVAL_HOURS - 2)
         THEN [exc |-> "none", update |-> [status |-> "borderline"]]
    ELSE [exc |-> "none", update |-> [status |-> "ok"]]

\* Mutant: the hapi classifier comparing with >= instead of >.
decide_action_node_hapi_ge(hs) ==
    IF hs = None THEN [exc |-> "none", update |-> [status |-> "no_data"]]
    ELSE IF hs[1] >= Hours(CHANGE_INTERVAL_HOURS)
         THEN [exc |-> "none", update |-> [status |-> "overdue"]]
    ELSE [exc |-> "none", update |-> [status |-> "ok"]]

\* Mutant: the hapi classifier rejecting a negative elapsed time as no_data.
decide_action_node_hapi_rejects_future(hs) ==
    IF hs = None \/ hs[1] < 0 THEN [exc |-> "none", update |-> [status |-> "no_data"]]
    ELSE IF hs[1] > Hours(CHANGE_INTERVAL_HOURS)
         THEN [exc |-> "none", update |-> [status |-> "overdue"]]
    ELSE [exc |-> "none", update |-> [status |-> "ok"]]

\* hapi/watchdog.py decide_action_node
decide_action_node_hapi(hs) ==
    IF hs = None THEN [exc |-> "none", update |-> [status |-> "no_data"]]
    ELSE IF hs[1] > Hours(CHANGE_INTERVAL_HOURS)
         THEN [exc |-> "none", update |-> [status |-> "overdue"]]
    ELSE [exc |-> "none", update |-> [status |-> "ok"]]

decide_action_node(v, hs) ==
    IF v = "mock" THEN decide_action_node_mock(hs) ELSE decide_action_node_hapi(hs)

\* notify_staff_node (both files): the alert names catheter_data["patient_id"]
\* and the elapsed hours; the returned key "notified" is no field of State and
\* is dropped by the graph.
notify_staff_node(cd, hs) ==
    IF cd = None \/ hs = None THEN [exc |-> "TypeError", update |-> NoUpdate, alert |-> None]
    ELSE [exc |-> "none", update |-> NoUpdate,
          alert |-> Some([patient |-> cd[1].patient_id, hours |-> hs[1]])]

\* reschedule_node (both files)
reschedule_node == [exc |-> "none", update |-> NoUpdate]

---------------------------------------------------------------------------
\* The graph

\* Mutant: the mock's conditional edge sending borderline to notify_staff.
decide_routes_borderline_notifies(v) ==
    IF v = "mock"
    THEN [s \in {"overdue", "borderline", "ok", "no_data"} |->
            CASE s = "overdue" -> "notify_staff"
              [] s = "borderline" -> "notify_staff"
              [] s = "ok" -> "reschedule"
              [] s = "no_data" -> "END"]
    ELSE [s \in {"overdue", "ok", "no_data"} |->
            CASE s = "overdue" -> "notify_staff"
              [] s = "ok" -> "reschedule"
              [] s = "no_data" -> "END"]

\* Mutant: the hapi conditional edge ending the workflow on ok.
decide_routes_ok_ends(v) ==
    IF v = "mock"
    THEN [s \in {"overdue", "borderline", "ok", "no_data"} |->
            CASE s = "overdue" -> "notify_staff"
              [] s = "borderline" -> "reschedule"
              [] s = "ok" -> "reschedule"
              [] s = "no_data" -> "END"]
    ELSE [s \in {"overdue", "ok", "no_data"} |->
            CASE s = "overdue" -> "notify_staff"
              [] s = "ok" -> "END"
              [] s = "no_data" -> "END"]

\* The mapping of the conditional edge out of decide_action.
decide_routes(v) ==
    IF v = "mock"
    THEN [s \in {"overdue", "borderline", "ok", "no_data"} |->
            CASE s = "overdue" -> "notify_staff"
              [] s = "borderline" -> "reschedule"
              [] s = "ok" -> "reschedule"
              [] s = "no_data" -> "END"]
    ELSE [s \in {"overdue", "ok", "no_data"} |->
            CASE s = "overdue" -> "notify_staff"
              [] s = "ok" -> "reschedule"
              [] s = "no_data" -> "END"]

\* Mutant: the edge out of notify_staff leading to END instead of reschedule.
edge_notify_to_end(v, node, st) ==
    CASE node = "check_schedule" -> "decide_action"
      [] node = "decide_action" ->
            IF st \in DOMAIN decide_routes(v) THEN decide_routes(v)[st] ELSE "raised"
      [] node = "notify_staff" -> "END"
      [] node = "reschedule" -> IF v = "mock" THEN "END" ELSE "check_schedule"

\* Mutant: reschedule leading back to check_schedule in the mock as well.
edge_always_loops(v, node, st) ==
    CASE node = "check_schedule" -> "decide_action"
      [] node = "decide_action" ->
            IF st \in DOMAIN decide_routes(v) THEN decide_routes(v)[st] ELSE "raised"
      [] node = "notify_staff" -> "reschedule"
      [] node = "reschedule" -> "check_schedule"

\* The node that follows node in variant v when the state's status is st;
\* "raised" when the conditional edge has no route for st.
edge(v, node, st) ==
    CASE node = "check_schedule" -> "decide_action"
      [] node = "decide_action" ->
            IF st \in DOMAIN decide_routes(v) THEN decide_routes(v)[st] ELSE "raised"
      [] node = "notify_staff" -> "reschedule"
      [] node = "reschedule" -> IF v = "mock" THEN "END" ELSE "check_schedule"

\* The value of a State field after a node's update.
Updated(update, key, old) == IF key \in DOMAIN update THEN update[key] ELSE old

---------------------------------------------------------------------------
\* State of the process

\* The calculator and patients_smart.py are not running.
NoCalc == [pc |-> "off"]
NoSmart == [pc |-> "off"]

NoCycle == [fetch |-> "unset", trace |-> <<>>, decided |-> "None"]

Init ==
    /\ variant \in Variants
    /\ pc = "main"
    /\ patients = <<>>
    /\ idx = 0
    /\ patient_id = ""
    /\ catheter_data = None
    /\ hours_since = None
    /\ status = "None"
    /\ exc = "none"
    /\ cyc = NoCycle
    /\ recheck = FALSE
    /\ alert = None
    /\ alerted = FALSE
    /\ started = {}
    /\ summaries = <<>>
    /\ bundle = None
    /\ calc = NoCalc
    /\ smart = NoSmart

\* One super-step of the graph: the node returned r.  An exception leaves the
\* invocation and, nothing catching it, the process; otherwise the update is
\* written to the State and the outgoing edge is followed.
RunNode(node, r) ==
    IF r.exc # "none"
    THEN /\ pc' = "raised"
         /\ exc' = r.exc
         /\ UNCHANGED <<catheter_data, hours_since, status>>
    ELSE LET st == Updated(r.update, "status", status)
             nxt == edge(variant, node, st)
         IN  /\ catheter_data' = Updated(r.update, "catheter_data", catheter_data)
             /\ hours_since' = Updated(r.update, "hours_since", hours_since)
             /\ status' = st
             /\ pc' = nxt
             /\ exc' = IF nxt = "raised" THEN "KeyError" ELSE exc

\* The history of a cycle that check_schedule begins.
NewCycle(fetch, r) ==
    [fetch |-> fetch,
     trace |-> IF r.exc = "none" THEN <<"check_schedule">> ELSE <<>>,
     decided |-> "None"]

---------------------------------------------------------------------------
\* __main__

\* watchdog_mock.py: mock_patients = fetch_patients_with_catheters()
DiscoverMock ==
    /\ pc = "main"
    /\ variant = "mock"
    /\ patients' = MockPatients
    /\ idx' = 1
    /\ pc' = "loop"
    /\ UNCHANGED <<variant, bundle, calc, smart, patient_id, catheter_data, hours_since, status, exc,
                   cyc, recheck, alert, alerted, started, summaries>>

\* hapi/watchdog.py: patients = fetch_patients_with_catheters(), the list of
\* the collected set in any order; an empty list prints a message and the
\* program ends.  The bundle is gone once the first workflow starts.
DiscoverHapi ==
    /\ pc = "main"
    /\ variant = "hapi"
    /\ \E entries \in Bundles, ps \in PatientLists :
         /\ Range(ps) = fetch_patients_with_catheters(entries)
         /\ bundle' = Some(entries)
         /\ patients' = ps
         /\ idx' = 1
         /\ pc' = IF ps = <<>> THEN "exit" ELSE "loop"
    /\ UNCHANGED <<variant, calc, smart, patient_id, catheter_data, hours_since, status, exc,
                   cyc, recheck, alert, alerted, started, summaries>>

\* hapi/watchdog.py: the discovery request raises.
DiscoverRaises ==
    /\ pc = "main"
    /\ variant = "hapi"
    /\ pc' = "raised"
    /\ exc' = "RequestException"
    /\ UNCHANGED <<variant, bundle, calc, smart, patients, idx, patient_id, catheter_data, hours_since,
                   status, cyc, recheck, alert, alerted, started, summaries>>

\* The compiled graph invoked for one given patient, as in the commented
\* lines of hapi/watchdog.py: app.invoke({"patient_id": p}).
InvokeApp ==
    /\ pc = "main"
    /\ \E p \in PatientIds : patients' = <<p>>
    /\ idx' = 1
    /\ pc' = "loop"
    /\ UNCHANGED <<variant, bundle, calc, smart, patient_id, catheter_data, hours_since, status, exc,
                   cyc, recheck, alert, alerted, started, summaries>>

\* Mutant: the invocation entering the graph with the State the previous
\* invocation left.
StartWorkflow_keeps_state ==
    /\ pc = "loop"
    /\ idx <= Len(patients)
    /\ patient_id' = patients[idx]
    /\ pc' = "check_schedule"
    /\ cyc' = NoCycle
    /\ recheck' = FALSE
    /\ alerted' = FALSE
    /\ started' = started \cup {idx}
    /\ bundle' = None
    /\ UNCHANGED <<variant, calc, smart, patients, idx, exc, alert, summaries,
                   catheter_data, hours_since, status>>

\* for patient_id in patients: app.invoke({"patient_id": patient_id}) builds a
\* new State and enters the graph at check_schedule.
StartWorkflow ==
    /\ pc = "loop"
    /\ idx <= Len(patients)
    /\ patient_id' = patients[idx]
    /\ catheter_data' = None
    /\ hours_since' = None
    /\ status' = "None"
    /\ pc' = "check_schedule"
    /\ cyc' = NoCycle
    /\ recheck' = FALSE
    /\ alerted' = FALSE
    /\ started' = started \cup {idx}
    /\ bundle' = None
    /\ UNCHANGED <<variant, calc, smart, patients, idx, exc, alert, summaries>>

\* The list is exhausted.
LoopEnd ==
    /\ pc = "loop"
    /\ idx > Len(patients)
    /\ pc' = "exit"
    /\ UNCHANGED <<variant, bundle, calc, smart, patients, idx, patient_id, catheter_data, hours_since,
                   status, exc, cyc, recheck, alert, alerted, started, summaries>>

\* app.invoke returns the final state; the mock prints its summary.
InvokeReturns ==
    /\ pc = "END"
    /\ summaries' =
         IF variant = "mock"
         THEN Append(summaries, [patient_id |-> patient_id, status |-> status,
                                 hours_since |-> hours_since])
         ELSE summaries
    /\ idx' = idx + 1
    /\ pc' = "loop"
    /\ UNCHANGED <<variant, bundle, calc, smart, patients, patient_id, catheter_data, hours_since,
                   status, exc, cyc, recheck, alert, alerted, started>>

---------------------------------------------------------------------------
\* The nodes as steps of the graph

\* watchdog_mock.py check_schedule: the clock is read in fetch_catheter_data
\* (now1) and again, later, in hours_since_insertion (now2).
CheckScheduleMock ==
    /\ pc = "check_schedule"
    /\ variant = "mock"
    /\ \E now1 \in Clock, now2 \in Clock :
         /\ now2 > now1
         /\ LET fetched == fetch_catheter_data_mock(patient_id, now1)
                r == check_schedule_node(fetched, now2)
            IN  /\ RunNode("check_schedule", r)
                /\ cyc' = NewCycle(IF fetched = None THEN "none" ELSE "record", r)
    /\ UNCHANGED <<variant, bundle, calc, smart, patients, idx, patient_id, recheck, alert, alerted,
                   started, summaries>>

\* hapi/watchdog.py check_schedule: an exception of fetch_catheter_data
\* passes through check_schedule_node.
CheckScheduleHapi ==
    /\ pc = "check_schedule"
    /\ variant = "hapi"
    /\ \E now \in Clock, o \in FetchOutcomesHapi(patient_id) :
         LET r == IF o.exc # "none"
                  THEN [exc |-> o.exc, update |-> NoUpdate]
                  ELSE check_schedule_node(o.value, now)
             fetch == IF o.exc # "none" THEN "raise"
                      ELSE IF o.value = None THEN "none" ELSE "record"
         IN  /\ RunNode("check_schedule", r)
             /\ cyc' = NewCycle(fetch, r)
    /\ UNCHANGED <<variant, bundle, calc, smart, patients, idx, patient_id, recheck, alert, alerted,
                   started, summaries>>

DecideAction ==
    /\ pc = "decide_action"
    /\ LET r == decide_action_node(variant, hours_since)
       IN  /\ RunNode("decide_action", r)
           /\ cyc' = IF r.exc = "none"
                     THEN [cyc EXCEPT !.trace = Append(@, "decide_action"),
                                      !.decided = r.update.status]
                     ELSE cyc
    /\ UNCHANGED <<variant, bundle, calc, smart, patients, idx, patient_id, recheck, alert, alerted,
                   started, summaries>>

NotifyStaff ==
    /\ pc = "notify_staff"
    /\ LET r == notify_staff_node(catheter_data, hours_since)
       IN  /\ RunNode("notify_staff", r)
           /\ alert' = IF r.exc = "none" THEN r.alert ELSE alert
           /\ alerted' = IF r.exc = "none" THEN TRUE ELSE alerted
           /\ cyc' = IF r.exc = "none"
                     THEN [cyc EXCEPT !.trace = Append(@, "notify_staff")]
                     ELSE cyc
    /\ UNCHANGED <<variant, bundle, calc, smart, patients, idx, patient_id, recheck, started, summaries>>

\* reschedule: sleeps, returns {}; in hapi/watchdog.py the edge leads back to
\* check_schedule with the State as it is.
Reschedule ==
    /\ pc = "reschedule"
    /\ RunNode("reschedule", reschedule_node)
    /\ cyc' = [cyc EXCEPT !.trace = Append(@, "reschedule")]
    /\ recheck' = IF variant = "hapi" THEN TRUE ELSE recheck
    /\ UNCHANGED <<variant, bundle, calc, smart, patients, idx, patient_id, alert, alerted, started,
                   summaries>>

Next ==
    \/ DiscoverMock
    \/ DiscoverHapi
    \/ DiscoverRaises
    \/ InvokeApp
    \/ StartWorkflow
    \/ LoopEnd
    \/ InvokeReturns
    \/ CheckScheduleMock
    \/ CheckScheduleHapi
    \/ DecideAction
    \/ NotifyStaff
    \/ Reschedule

Spec == Init /\ [][Next]_vars

\* The process never idles: a step that can be taken is taken.
FairSpec == Spec /\ WF_vars(Next)

\* The process is interrupted from outside (SIGINT): KeyboardInterrupt is
\* raised wherever the program is, and nothing catches it.
Interrupt ==
    /\ pc \notin {"exit", "raised"}
    /\ pc' = "raised"
    /\ exc' = "KeyboardInterrupt"
    /\ UNCHANGED <<variant, bundle, calc, smart, patients, idx, patient_id,
                   catheter_data, hours_since, status, cyc, recheck, alert,
                   alerted, started, summaries>>

SignalSpec == Init /\ [][Next \/ Interrupt]_vars

\* watchdog_mock.py alone, the interpreter always running its next statement.
MockInit == Init /\ variant = "mock"

MockNext ==
    \/ DiscoverMock
    \/ InvokeApp
    \/ StartWorkflow
    \/ LoopEnd
    \/ InvokeReturns
    \/ CheckScheduleMock
    \/ DecideAction
    \/ NotifyStaff
    \/ Reschedule

MockSpec == MockInit /\ [][MockNext]_vars /\ WF_vars(MockNext)

\* The compiled graph invoked twice in a row for the same patient.
InvokeTwice ==
    /\ pc = "main"
    /\ \E p \in PatientIds : patients' = <<p, p>>
    /\ idx' = 1
    /\ pc' = "loop"
    /\ UNCHANGED <<variant, bundle, calc, smart, patient_id, catheter_data,
                   hours_since, status, exc, cyc, recheck, alert, alerted,
                   started, summaries>>

TwiceSpec == Init /\ [][Next \/ InvokeTwice]_vars

\* hours_since_insertion called on two timestamps at one reading of the clock.
CalcInstants == 0 .. MaxCalc
CalcTimestamps ==
    { Timestamp(k, t) : k \in {"aware", "naive", "unparseable"}, t \in CalcInstants }

CalcInit ==
    /\ variant \in Variants
    /\ pc = "main"
    /\ patients = <<>>
    /\ idx = 0
    /\ patient_id = ""
    /\ catheter_data = None
    /\ hours_since = None
    /\ status = "None"
    /\ exc = "none"
    /\ cyc = NoCycle
    /\ recheck = FALSE
    /\ alert = None
    /\ alerted = FALSE
    /\ started = {}
    /\ summaries = <<>>
    /\ bundle = None
    /\ smart = NoSmart
    /\ \E T1 \in CalcTimestamps, T2 \in CalcTimestamps, now \in CalcInstants :
         calc = [pc |-> "ready", T1 |-> T1, T2 |-> T2, now |-> now]

Calculate ==
    /\ calc.pc = "ready"
    /\ calc' = [pc |-> "done", T1 |-> calc.T1, T2 |-> calc.T2, now |-> calc.now,
                h1 |-> hours_since_insertion(calc.T1, calc.now),
                h2 |-> hours_since_insertion(calc.T2, calc.now)]
    /\ UNCHANGED <<variant, bundle, smart, pc, patients, idx, patient_id,
                   catheter_data, hours_since, status, exc, cyc, recheck, alert,
                   alerted, started, summaries>>

CalcSpec == CalcInit /\ [][Calculate]_vars

---------------------------------------------------------------------------
\* patients_smart.py: get_urinary_catheter_patients

Coding(system, code) == [system |-> system, code |-> code]
\* A Device entry: raises tells that reading it raises (as_json, or a field of
\* an unexpected shape); reference is <<>> when the device names no patient.
SmartEntry(raises, coding, reference) ==
    [raises |-> raises, coding |-> coding, reference |-> reference]
SmartEntries ==
    { SmartEntry(TRUE, <<>>, <<>>),
      SmartEntry(FALSE, <<Coding("http://snomed.info/sct", "303620002")>>,
                 <<"Patient", "patient-001">>),
      SmartEntry(FALSE, <<Coding("urn:other", "303620002"),
                          Coding("http://snomed.info/sct", "303620002")>>,
                 <<"Patient", "patient-002">>),
      SmartEntry(FALSE, <<Coding("http://snomed.info/sct", "303620002")>>, <<>>),
      SmartEntry(FALSE, <<Coding("http://snomed.info/sct", "86184003")>>,
                 <<"Patient", "patient-001">>),
      SmartEntry(FALSE, <<>>, <<"Patient", "patient-002">>) }
\* A page of results: its entries, and "next" when a link with relation next
\* is among its links, "none" when none is, "missing" when bundle.link is None.
SmartPages ==
    { [entry |-> es, link |-> l] :
        es \in SeqsUpTo(SmartEntries, MaxPageEntries),
        l \in {"next", "none", "missing"} }

\* The scan of the coding list for the SNOMED CT code of a urinary catheter.
is_urinary_catheter(coding) ==
    \E i \in 1 .. Len(coding) :
        coding[i].system = "http://snomed.info/sct" /\ coding[i].code = "303620002"

\* Mutant: one try around the whole loop, so that an entry that raises ends
\* the processing of its page.
RECURSIVE process_entries_stops_at_error(_, _)
process_entries_stops_at_error(entries, patient_ids) ==
    IF entries = <<>> THEN patient_ids
    ELSE LET entry == Head(entries)
         IN  IF entry.raises THEN patient_ids
             ELSE process_entries_stops_at_error(Tail(entries),
                    IF is_urinary_catheter(entry.coding) /\ entry.reference # <<>>
                    THEN patient_ids \cup {entry.reference[2]}
                    ELSE patient_ids)

\* for entry in bundle.entry: an entry that raises is skipped.
RECURSIVE process_entries(_, _)
process_entries(entries, patient_ids) ==
    IF entries = <<>> THEN patient_ids
    ELSE LET entry == Head(entries)
         IN  process_entries(Tail(entries),
                IF entry.raises THEN patient_ids
                ELSE IF is_urinary_catheter(entry.coding) /\ entry.reference # <<>>
                     THEN patient_ids \cup {entry.reference[2]}
                     ELSE patient_ids)

SmartInit ==
    /\ variant = "hapi"
    /\ pc = "main"
    /\ patients = <<>>
    /\ idx = 0
    /\ patient_id = ""
    /\ catheter_data = None
    /\ hours_since = None
    /\ status = "None"
    /\ exc = "none"
    /\ cyc = NoCycle
    /\ recheck = FALSE
    /\ alert = None
    /\ alerted = FALSE
    /\ started = {}
    /\ summaries = <<>>
    /\ bundle = None
    /\ calc = NoCalc
    /\ smart = [pc |-> "start", patient_ids |-> {}, before |-> {}, bundle |-> None,
                last |-> "first", pages |-> 0, returned |-> None]

SmartUnchanged ==
    UNCHANGED <<variant, bundle, calc, pc, patients, idx, patient_id,
                catheter_data, hours_since, status, exc, cyc, recheck, alert,
                alerted, started, summaries>>

\* check_server_status() fails: the function returns nothing.
SmartServerDown ==
    /\ smart.pc = "start"
    /\ smart' = [smart EXCEPT !.pc = "returned"]
    /\ SmartUnchanged

\* search.perform raises: every handler of the outer try prints, and the
\* function returns patient_ids.
SmartSearchRaises ==
    /\ smart.pc = "start"
    /\ smart' = [smart EXCEPT !.pc = "returned", !.returned = Some(smart.patient_ids)]
    /\ SmartUnchanged

\* search.perform returns the first page.
SmartSearch ==
    /\ smart.pc = "start"
    /\ \E page \in SmartPages :
         smart' = [smart EXCEPT !.pc = "page", !.bundle = Some(page), !.pages = 1]
    /\ SmartUnchanged

\* The entries of the current page are processed.
SmartProcessPage ==
    /\ smart.pc = "page"
    /\ smart' = [smart EXCEPT
                   !.pc = "next",
                   !.before = smart.patient_ids,
                   !.patient_ids = process_entries(smart.bundle[1].entry, smart.patient_ids)]
    /\ SmartUnchanged

\* bundle.link is None: next(...) raises TypeError, the outer except Exception
\* prints, and the function returns patient_ids.
SmartLinkMissing ==
    /\ smart.pc = "next"
    /\ smart.bundle[1].link = "missing"
    /\ smart' = [smart EXCEPT !.pc = "returned", !.last = "missing", !.bundle = None,
                               !.returned = Some(smart.patient_ids)]
    /\ SmartUnchanged

\* No link with relation next: bundle = None ends the loop.
SmartNoNextLink ==
    /\ smart.pc = "next"
    /\ smart.bundle[1].link = "none"
    /\ smart' = [smart EXCEPT !.pc = "output", !.last = "none", !.bundle = None]
    /\ SmartUnchanged

\* The next page is fetched.
SmartNextPage ==
    /\ smart.pc = "next"
    /\ smart.bundle[1].link = "next"
    /\ smart.pages < MaxPages
    /\ \E page \in SmartPages :
         smart' = [smart EXCEPT !.pc = "page", !.last = "ok", !.bundle = Some(page),
                                !.pages = @ + 1]
    /\ SmartUnchanged

\* Fetching the next page raises: bundle = None ends the loop.
SmartNextPageFails ==
    /\ smart.pc = "next"
    /\ smart.bundle[1].link = "next"
    /\ smart' = [smart EXCEPT !.pc = "output", !.last = "failed", !.bundle = None]
    /\ SmartUnchanged

\* The results are printed and patient_ids is returned.
SmartReturn ==
    /\ smart.pc = "output"
    /\ smart' = [smart EXCEPT !.pc = "returned", !.returned = Some(smart.patient_ids)]
    /\ SmartUnchanged

SmartNext ==
    \/ SmartServerDown
    \/ SmartSearchRaises
    \/ SmartSearch
    \/ SmartProcessPage
    \/ SmartLinkMissing
    \/ SmartNoNextLink
    \/ SmartNextPage
    \/ SmartNextPageFails
    \/ SmartReturn

SmartSpec == SmartInit /\ [][SmartNext]_vars

\* A node called on a State of the caller's making: decide_action is about to
\* run on a State carrying any elapsed time of HoursRange, or none.
NodeInit ==
    /\ variant \in Variants
    /\ pc = "decide_action"
    /\ \E p \in PatientIds :
         /\ patients = <<p>>
         /\ patient_id = p
         /\ \/ /\ hours_since = None
               /\ catheter_data = None
               /\ status = "no_data"
            \/ \E h \in HoursRange :
                 /\ hours_since = Some(h)
                 /\ catheter_data = Some(Record(p, Timestamp("aware", 0 - h), "Device"))
                 /\ status = "None"
    /\ idx = 1
    /\ exc = "none"
    /\ cyc = [fetch |-> "unset", trace |-> <<"check_schedule">>, decided |-> "None"]
    /\ recheck = FALSE
    /\ alert = None
    /\ alerted = FALSE
    /\ started = {1}
    /\ summaries = <<>>
    /\ bundle = None
    /\ calc = NoCalc
    /\ smart = NoSmart

NodeSpec == (Init \/ NodeInit) /\ [][Next]_vars

---------------------------------------------------------------------------
\* Properties

Ran(node) == \E i \in DOMAIN cyc.trace : cyc.trace[i] = node
Decided == cyc.decided # "None"
DecideRaised == pc = "raised" /\ cyc.trace = <<"check_schedule">>
Finished == pc \in {"END", "loop", "exit"}

\* C1: a patient for which the provider returns no record ends with status
\* no_data, without an exception, and the loop goes on (first cycle of the
\* invocation, either variant).
C1_NoRecordEndsNoData ==
    (cyc.fetch = "none" /\ ~recheck) =>
        /\ exc = "none"
        /\ pc \notin {"raised", "notify_staff", "reschedule"}
        /\ (Finished => status = "no_data")

\* C2: a failure while fetching the device record is caught at check_schedule
\* and becomes status no_data; the run is not aborted.
C2_FetchFailureCaught ==
    cyc.fetch = "raise" => (exc = "none" /\ pc # "raised" /\ status = "no_data")

\* C3: in every cycle notify_staff runs if and only if decide_action
\* classified overdue; overdue goes to notify_staff and then reschedule, ok
\* and borderline go straight to reschedule, no_data ends the workflow with
\* neither an alert nor a reschedule.
C3_NotifyIffOverdue ==
    /\ (pc = "notify_staff" \/ Ran("notify_staff")) => cyc.decided = "overdue"
    /\ cyc.decided = "overdue" => (pc = "notify_staff" \/ Ran("notify_staff"))
    /\ Ran("notify_staff") => (pc = "reschedule" \/ Ran("reschedule"))
    /\ cyc.decided \in {"ok", "borderline"} => (pc = "reschedule" \/ Ran("reschedule"))
    /\ cyc.decided = "no_data" =>
          (Finished /\ ~Ran("notify_staff") /\ ~Ran("reschedule"))

C3_Witness ==
    cyc.decided = "overdue" /\ Ran("notify_staff") /\ Ran("reschedule")

\* The two complete cycles the ordering claim allows.
CyclePaths ==
    { <<"check_schedule", "decide_action", "notify_staff", "reschedule">>,
      <<"check_schedule", "decide_action", "reschedule">> }
IsPrefix(s, t) == Len(s) <= Len(t) /\ \A i \in 1 .. Len(s) : s[i] = t[i]

\* C4: the stages of a cycle run in the order check_schedule, decide_action,
\* optionally notify_staff, reschedule; a stage is about to run only after its
\* predecessors ran in the same cycle, and a workflow that ends without
\* reschedule ended on no_data.
C4_StagesInOrder ==
    /\ \E path \in CyclePaths : IsPrefix(cyc.trace, path)
    /\ pc \in {"decide_action", "notify_staff", "reschedule"} =>
          \E path \in CyclePaths : IsPrefix(Append(cyc.trace, pc), path)
    /\ pc = "check_schedule" => (cyc.trace = <<>> \/ cyc.trace \in CyclePaths)
    /\ pc = "END" =>
          \/ cyc.trace \in CyclePaths
          \/ (cyc.trace = <<"check_schedule", "decide_action">> /\ status = "no_data")

C4_Witness ==
    /\ pc = "END"
    /\ cyc.trace = <<"check_schedule", "decide_action", "notify_staff", "reschedule">>

\* C5: in the continuous variant a later cycle whose check_schedule finds no
\* record ends with no_data: no notify_staff, no reschedule, no
\* classification from the values of an earlier cycle.
C5_RecheckNoRecordEndsNoData ==
    (recheck /\ cyc.fetch = "none") =>
        /\ cyc.decided \in {"None", "no_data"}
        /\ pc \notin {"notify_staff", "reschedule"}
        /\ ~Ran("notify_staff") /\ ~Ran("reschedule")

\* C6: every patient of the list eventually has its workflow started,
\* whatever the outcome of the patients before it.  Runs that an uncaught
\* exception ends are left to C1 and C2: here a patient must be started in
\* every run that no exception ends.
C6_EveryPatientStarted ==
    \A i \in 1 .. (MaxPatients + 3) :
        (i <= Len(patients)) ~> (i \in started \/ pc = "raised")

C8_ClassifierRanges ==
    /\ (Decided /\ hours_since # None) =>
          LET h == hours_since[1]
          IN  IF variant = "mock"
              THEN status = (IF h > Hours(72) THEN "overdue"
                             ELSE IF Hours(70) < h /\ h <= Hours(72) THEN "borderline"
                             ELSE "ok")
              ELSE status = (IF h > Hours(72) THEN "overdue" ELSE "ok")
    /\ (Decided /\ variant = "mock" /\ cyc.fetch = "record") =>
          /\ patient_id = "patient-001" => status = "overdue"
          /\ patient_id = "patient-002" => status = "ok"
          /\ patient_id = "patient-003" => status = "borderline"

C8_Witness ==
    /\ variant = "mock"
    /\ cyc.fetch = "record"
    /\ patient_id = "patient-003"
    /\ Decided
    /\ status = "borderline"

\* C9: hours_since is set if and only if catheter_data is set.
C9_HoursIffData == (hours_since = None) <=> (catheter_data = None)

C9_Witness ==
    /\ recheck
    /\ cyc.fetch = "none"
    /\ pc = "decide_action"
    /\ hours_since # None
    /\ catheter_data # None

\* C10: whenever status is set it is the classifier's result for the current
\* hours_since, no_data exactly when hours_since is absent.
C10_StatusIsClassifierOfHours ==
    status # "None" =>
        IF hours_since = None
        THEN status = "no_data"
        ELSE status = decide_action_node(variant, hours_since).update.status

\* C11: a record whose insertion timestamp cannot be parsed as a
\* timezone-aware timestamp ends the workflow with status no_data instead of
\* an error: after a fetch that returned a record no exception has ended the
\* process, and a cycle left without an elapsed time has status no_data.
C11_MalformedTimestampIsNoData ==
    cyc.fetch = "record" =>
        /\ exc = "none"
        /\ pc # "raised"
        /\ (hours_since = None => status = "no_data")

\* C14: discovery returns exactly the identifiers of the direct Patient
\* records and those referenced as Patient/<id> by Device records, each once,
\* and an empty list without an error for a bundle without entries.
C14_DiscoveryMergesBothShapes ==
    bundle # None =>
        LET entries == bundle[1]
            direct == { entries[i].id :
                          i \in { j \in 1 .. Len(entries) :
                                    entries[j].resourceType = "Patient" } }
            referenced == { entries[i].reference[2] :
                              i \in { j \in 1 .. Len(entries) :
                                        /\ entries[j].resourceType = "Device"
                                        /\ Len(entries[j].reference) >= 2
                                        /\ entries[j].reference[1] = "Patient" } }
        IN  /\ Range(patients) = direct \cup referenced
            /\ Len(patients) = Cardinality(direct \cup referenced)
            /\ entries = <<>> => (patients = <<>> /\ pc = "exit" /\ exc = "none")

C14_Witness ==
    /\ bundle = Some(<<Resource("Patient", "patient-001", <<>>),
                       Resource("Device", "dev", <<"Patient", "patient-001">>)>>)
    /\ patients = <<"patient-001">>

\* C12: an external stop signal is honoured at the top of a cycle only: when
\* it ends the run, the cycle that was in progress has run to its end (or
\* none had begun).
C12_StopOnlyAtCycleTop ==
    exc = "KeyboardInterrupt" =>
        \/ cyc.trace = <<>>
        \/ cyc.trace \in CyclePaths
        \/ (cyc.trace = <<"check_schedule", "decide_action">> /\ status = "no_data")

\* C13: an invocation starts from a State that holds nothing of the one
\* before it, and two runs for the same patient with the same elapsed time
\* (same insertion timestamp, same current time) print the same status.
C13_SameInputsSameStatus ==
    /\ (pc = "check_schedule" /\ ~recheck) =>
          (status = "None" /\ hours_since = None /\ catheter_data = None)
    /\ \A i, j \in DOMAIN summaries :
          (/\ summaries[i].patient_id = summaries[j].patient_id
           /\ summaries[i].hours_since = summaries[j].hours_since)
          => summaries[i].status = summaries[j].status

C13_Witness ==
    /\ Len(summaries) = 2
    /\ summaries[1].patient_id = summaries[2].patient_id
    /\ summaries[1].hours_since = summaries[2].hours_since
    /\ summaries[1].status = "borderline"
    /\ summaries[2].status = "borderline"

\* C15: for a timezone-aware timestamp T not later than now the elapsed time
\* is now - T, and of two such timestamps the earlier gives the larger value.
C15_ElapsedIsNowMinusT ==
    calc.pc = "done" =>
        /\ (calc.T1.kind = "aware" /\ calc.T1.t <= calc.now) =>
              (/\ calc.h1.exc = "none"
               /\ calc.h1.value = calc.now - calc.T1.t
               /\ calc.h1.value >= 0)
        /\ (/\ calc.T1.kind = "aware" /\ calc.T2.kind = "aware"
            /\ calc.T1.t < calc.T2.t /\ calc.T2.t <= calc.now) =>
              calc.h1.value > calc.h2.value

C15_Witness ==
    /\ calc.pc = "done"
    /\ calc.T1.kind = "aware" /\ calc.T2.kind = "aware"
    /\ calc.T1.t < calc.T2.t /\ calc.T2.t <= calc.now
    /\ calc.h1.value > calc.h2.value

\* C16: in the single-cycle variant a patient whose fetch returns a record
\* reaches END, having run check_schedule, decide_action and reschedule once
\* each and notify_staff at most once, with a status of ok, borderline or
\* overdue and hours_since present in the summary.
C16_SingleCycleTerminates ==
    /\ [](  (variant = "mock" /\ cyc.fetch = "record" /\ pc = "END") =>
              (/\ cyc.trace \in CyclePaths
               /\ status \in {"ok", "borderline", "overdue"}
               /\ hours_since # None))
    /\ [](  variant = "mock" =>
              \A i \in DOMAIN summaries :
                  (/\ summaries[i].status \in {"ok", "borderline", "overdue"}
                   /\ summaries[i].hours_since # None))
    /\ ((variant = "mock" /\ cyc.fetch = "record" /\ pc = "decide_action")
          ~> (pc = "END"))

C16_Witness ==
    /\ variant = "mock"
    /\ cyc.fetch = "record"
    /\ pc = "END"
    /\ cyc.trace = <<"check_schedule", "decide_action", "reschedule">>
    /\ status = "ok"

\* C17: a workflow at END has status no_data if and only if hours_since and
\* catheter_data are absent; the continuous variant reaches END only with
\* status no_data and without an alert during the invocation.
C17_DoneStatus ==
    pc = "END" =>
        /\ (status = "no_data") <=> (hours_since = None /\ catheter_data = None)
        /\ variant = "hapi" => (status = "no_data" /\ ~alerted)

C17_Witness ==
    /\ pc = "END"
    /\ variant = "hapi"
    /\ status = "no_data"
    /\ cyc.fetch = "none"

\* C18: an insertion timestamp in the future is not rejected: hours_since is
\* negative, decide_action returns ok, no alert is printed and the cycle goes
\* on to reschedule, in both variants.
C18_FutureTimestampIsOk ==
    /\ (/\ cyc.fetch = "record" /\ ~recheck /\ catheter_data # None
        /\ catheter_data[1].inserted.t > MaxLag) =>
          (/\ exc = "none"
           /\ hours_since # None
           /\ hours_since[1] < 0)
    /\ (Decided /\ hours_since # None /\ hours_since[1] < 0) =>
          (/\ status = "ok"
           /\ ~Ran("notify_staff")
           /\ pc # "notify_staff"
           /\ (pc = "reschedule" \/ Ran("reschedule")))

C18_Witness ==
    /\ cyc.fetch = "record"
    /\ hours_since # None
    /\ hours_since[1] < 0
    /\ status = "ok"
    /\ Ran("reschedule")
    /\ ~alerted

\* The identifiers a page contributes: those of its urinary-catheter entries
\* that can be read and name a patient.
PageIds(page) ==
    { page.entry[i].reference[2] :
        i \in { j \in 1 .. Len(page.entry) :
                  /\ ~page.entry[j].raises
                  /\ page.entry[j].reference # <<>>
                  /\ \E k \in 1 .. Len(page.entry[j].coding) :
                        /\ page.entry[j].coding[k].system = "http://snomed.info/sct"
                        /\ page.entry[j].coding[k].code = "303620002" } }

\* C19: the collected set only grows: processing a page adds exactly the
\* identifiers of its readable urinary-catheter entries to what earlier pages
\* gave, an entry that raises costing only itself; the loop is left as soon as
\* a page has no next link or the next page cannot be fetched, and whatever
\* was collected is in the returned set.
C19_CollectedOnlyGrows ==
    /\ smart.pc = "next" =>
          (/\ smart.before \subseteq smart.patient_ids
           /\ smart.patient_ids = smart.before \cup PageIds(smart.bundle[1]))
    /\ smart.pc \in {"page", "output", "returned"} =>
          smart.before \subseteq smart.patient_ids
    /\ smart.pc = "page" => smart.last \in {"first", "ok"}
    /\ smart.last \in {"none", "failed"} => smart.pc \in {"output", "returned"}
    /\ smart.last = "missing" => smart.pc = "returned"
    /\ (smart.pc = "returned" /\ smart.pages > 0) =>
          smart.returned = Some(smart.patient_ids)

C19_Witness ==
    /\ smart.pc = "returned"
    /\ smart.last = "failed"
    /\ smart.pages = 2
    /\ smart.returned = Some({"patient-001", "patient-002"})

====
